---- MODULE Spec2Model ----
(***************************************************************************)
(* A model of src/ckan_essdive.py: the CkanEssDiveClient that moves CKAN   *)
(* packages into ESS-DIVE.                                                  *)
(*                                                                         *)
(* Python values are modelled as tagged records, so that truthiness,       *)
(* `a or b`, dict.get and list comprehensions are computed as Python       *)
(* computes them:                                                          *)
(*    None          [t |-> "none"]                                         *)
(*    str           [t |-> "str",  s |-> <<"a", "b">>]  (a tuple of chars) *)
(*    list          [t |-> "list", l |-> <<v1, v2>>]                       *)
(*    dict          [t |-> "dict", d |-> [key |-> value]]                  *)
(* A dict's keys are TLA+ strings; its values are Python values.           *)
(***************************************************************************)
EXTENDS Integers, Sequences, FiniteSets, TLC

VARIABLES
    ckan_key,       \* self.ckan_key: a tuple of characters
    ess_token,      \* self.ess_token: a tuple of characters
    dry_run,        \* self.dry_run
    tapis_cfg,      \* self.tapis_base/_token/_system/_path, each set or not
    Tapis,          \* the module global Tapis: TRUE when tapipy was imported
    tapis_client,   \* self._tapis_client: "None" or "client"
    essRequested,   \* whether a request to {ess_url}/datasets was ever issued
    pc,             \* "idle", "staging" (inside stage_resources' loop) or "returned"
    op,             \* the operation that ran last
    arg,            \* its argument
    ret,            \* its outcome
    world,          \* what the remote ends answer for each resource staged
    idx,            \* stage_resources: position of the for loop
    saved,          \* stage_resources: the list saved
    log             \* logging.warning calls of stage_resources, in order

vars == <<ckan_key, ess_token, dry_run, tapis_cfg, Tapis, tapis_client,
          essRequested, pc, op, arg, ret, world, idx, saved, log>>

(***************************************************************************)
(* Bounds of the model.                                                    *)
(***************************************************************************)
MaxResources == 3   \* resources of a package handed to stage_resources
MaxExtras == 2      \* entries of a package's extras list
MaxNameLen == 3     \* characters of a generated resource name

(***************************************************************************)
(* Python values.                                                          *)
(***************************************************************************)
PyNone == [t |-> "none"]
PyStr(s) == [t |-> "str", s |-> s]
PyList(l) == [t |-> "list", l |-> l]
PyDict(d) == [t |-> "dict", d |-> d]
EmptyMap == [k \in {} |-> PyNone]

\* bool(v)
Truthy(v) ==
    CASE v.t = "none" -> FALSE
      [] v.t = "str"  -> Len(v.s) > 0
      [] v.t = "list" -> Len(v.l) > 0
      [] v.t = "dict" -> DOMAIN v.d # {}

\* a or b
PyOr(a, b) == IF Truthy(a) THEN a ELSE b

\* d.get(k) and d.get(k, default) on the mapping d
Get(d, k) == IF k \in DOMAIN d THEN d[k] ELSE PyNone
GetOr(d, k, default) == IF k \in DOMAIN d THEN d[k] ELSE default

\* any(l)
PyAny(l) == \E i \in 1..Len(l) : Truthy(l[i])

\* Strings of the source, as tuples of characters.
SeqsUpTo(S, n) == UNION {[1..k -> S] : k \in 0..n}
Chars_resource == <<"r", "e", "s", "o", "u", "r", "c", "e">>
Chars_dataset == <<"d", "a", "t", "a", "s", "e", "t">>
Chars_dataset_csv == Chars_dataset \o <<".", "c", "s", "v">>
Chars_url_data_csv ==
    <<"h", "t", "t", "p", "s", ":", "/", "/", "x", "/", "d", "a", "t", "a", ".", "c", "s", "v">>

(***************************************************************************)
(* REQUIRED_FIELDS, in the dict's insertion order.                         *)
(***************************************************************************)
REQUIRED_FIELDS ==
    << <<"title", "Title">>,
       <<"description", "Description / abstract">>,
       <<"creators", "At least one creator">>,
       <<"contacts", "Primary contact / maintainer">>,
       <<"keywords", "Keywords / tags">> >>

(***************************************************************************)
(* map_ckan_to_essdive                                                     *)
(***************************************************************************)
\* {item.get("key"): item.get("value") for item in extras}: a later item
\* overwrites an earlier one with the same key.
RECURSIVE ExtrasDict(_)
ExtrasDict(items) ==
    IF items = <<>> THEN EmptyMap
    ELSE LET n == Len(items)
         IN (items[n].key :> items[n].value) @@ ExtrasDict(SubSeq(items, 1, n - 1))

PersonList_Unconditional(package, nameKey, emailKey) ==
    <<PyDict([name |-> Get(package, nameKey), email |-> Get(package, emailKey)])>>

PersonList(package, nameKey, emailKey) ==
    IF Truthy(Get(package, nameKey)) \/ Truthy(Get(package, emailKey))
    THEN <<PyDict([name |-> Get(package, nameKey), email |-> Get(package, emailKey)])>>
    ELSE <<>>

\* [x.get(key) for x in package.get(listKey, []) if x.get(key)]
NamesOf(package, listKey, key) ==
    LET items == GetOr(package, listKey, PyList(<<>>)).l
        Named(x) == Truthy(Get(x.d, key))
        named == SelectSeq(items, Named)
    IN [i \in 1..Len(named) |-> Get(named[i].d, key)]

ResourceDescriptor(res) ==
    PyDict([id |-> Get(res.d, "id"), name |-> Get(res.d, "name"),
            url |-> Get(res.d, "url"), format |-> Get(res.d, "format"),
            description |-> Get(res.d, "description"), size |-> Get(res.d, "size")])

\* extras.get(first) or extras.get(second)
ExtrasFallback_NoFallback(extras, first, second) == Get(extras, first)

ExtrasFallback(extras, first, second) == PyOr(Get(extras, first), Get(extras, second))

map_ckan_to_essdive(package) ==
    LET extras == ExtrasDict(GetOr(package, "extras", PyList(<<>>)).l)
    IN [title |-> PyOr(Get(package, "title"), Get(package, "name")),
        description |-> Get(package, "notes"),
        keywords |-> PyList(NamesOf(package, "tags", "display_name")),
        creators |-> PyList(PersonList(package, "author", "author_email")),
        contacts |-> PyList(PersonList(package, "maintainer", "maintainer_email")),
        temporalCoverage |-> PyDict(
            [startDate |-> ExtrasFallback(extras, "temporal_start", "time_start"),
             endDate |-> ExtrasFallback(extras, "temporal_end", "time_end")]),
        spatialCoverage |-> ExtrasFallback(extras, "spatial", "bbox"),
        communities |-> PyList(NamesOf(package, "groups", "name")),
        sourceCkanId |-> Get(package, "id"),
        sourceCkanName |-> Get(package, "name"),
        resources |-> PyList(LET rs == GetOr(package, "resources", PyList(<<>>)).l
                             IN [i \in 1..Len(rs) |-> ResourceDescriptor(rs[i])]),
        extras |-> PyDict(extras)]

(***************************************************************************)
(* find_missing_metadata                                                   *)
(***************************************************************************)
\* One pass of the for loop over REQUIRED_FIELDS: whether the label is appended.
RequiredFieldMissing_NoAnyCheck(value) == ~Truthy(value)

RequiredFieldMissing(value) ==
    IF ~Truthy(value) THEN TRUE
    ELSE value.t = "list" /\ ~PyAny(value.l)

RECURSIVE RequiredLoop(_, _)
RequiredLoop(payload, fields) ==
    IF fields = <<>> THEN <<>>
    ELSE (IF RequiredFieldMissing(Get(payload, Head(fields)[1]))
          THEN <<Head(fields)[2]>> ELSE <<>>)
         \o RequiredLoop(payload, Tail(fields))

TemporalMissing(payload) ==
    LET temporal == PyOr(Get(payload, "temporalCoverage"), PyDict(EmptyMap))
    IN (IF ~Truthy(Get(temporal.d, "startDate")) THEN <<"Temporal start date">> ELSE <<>>)
       \o (IF ~Truthy(Get(temporal.d, "endDate")) THEN <<"Temporal end date">> ELSE <<>>)

find_missing_metadata(payload) ==
    RequiredLoop(payload, REQUIRED_FIELDS) \o TemporalMissing(payload)

(***************************************************************************)
(* _resource_filename                                                      *)
(***************************************************************************)
\* The components of a path between "/" separators.
RECURSIVE SplitSlash(_, _)
SplitSlash(s, cur) ==
    IF s = <<>> THEN <<cur>>
    ELSE IF Head(s) = "/" THEN <<cur>> \o SplitSlash(Tail(s), <<>>)
    ELSE SplitSlash(Tail(s), Append(cur, Head(s)))

\* pathlib.Path(url).name: the last component; empty and "." components are
\* dropped when the path is parsed.
PathName(url) ==
    LET Kept(c) == c # <<>> /\ c # <<".">>
        parts == SelectSeq(SplitSlash(url, <<>>), Kept)
    IN IF parts = <<>> THEN <<>> ELSE parts[Len(parts)]

\* name.rfind("."), 1-based; 0 when there is none
RFindDot(name) ==
    LET dots == {i \in 1..Len(name) : name[i] = "."}
    IN IF dots = {} THEN 0 ELSE CHOOSE i \in dots : \A j \in dots : j <= i

\* pathlib.Path(url).suffix: from the name's last dot, unless that dot is the
\* name's first or last character.
PathSuffix(url) ==
    LET name == PathName(url)
        i == RFindDot(name)
    IN IF 1 < i /\ i < Len(name) THEN SubSeq(name, i, Len(name)) ELSE <<>>

\* name.endswith(suffix)
EndsWith(name, suffix) ==
    /\ Len(suffix) <= Len(name)
    /\ SubSeq(name, Len(name) - Len(suffix) + 1, Len(name)) = suffix

\* if suffix and not name.endswith(suffix)
AppendsSuffix_Always(name, suffix) == suffix # <<>>

AppendsSuffix(name, suffix) == suffix # <<>> /\ ~EndsWith(name, suffix)

resource_filename(resource) ==
    LET name == PyOr(PyOr(Get(resource, "name"), Get(resource, "id")), PyStr(Chars_resource))
        url == PyOr(Get(resource, "url"), PyStr(<<>>))
        suffix == IF Truthy(url) THEN PathSuffix(url.s) ELSE <<>>
    IN IF AppendsSuffix(name.s, suffix) THEN name.s \o suffix ELSE name.s

(***************************************************************************)
(* Inputs of the static methods.  Absent marks a key the mapping lacks.    *)
(***************************************************************************)
Absent == [t |-> "absent"]
Opt(k, v) == IF v = Absent THEN EmptyMap ELSE (k :> v)

Tag(key, text) == PyDict(key :> PyStr(text))
SampleResource ==
    PyDict([id |-> PyStr(<<"i">>), name |-> PyStr(<<"d">>),
            url |-> PyStr(<<"x", "/", "d", ".", "c">>), size |-> PyNone])

ExtraKeys == {"temporal_start", "time_start", "temporal_end", "time_end", "spatial", "bbox"}
ExtraValues == {PyNone, PyStr(<<>>), PyStr(<<"1">>), PyStr(<<"2">>)}
ExtraItems == [key : ExtraKeys, value : ExtraValues]

\* Records that vary the scalar and list fields, with no extras.
ListPackages ==
    { Opt("title", title) @@ Opt("name", name) @@ Opt("notes", notes)
      @@ Opt("author", author) @@ Opt("author_email", author_email)
      @@ Opt("maintainer", maintainer) @@ Opt("maintainer_email", maintainer_email)
      @@ Opt("tags", tags) @@ Opt("groups", groups) @@ Opt("resources", resources)
      @@ Opt("extras", extras) :
        title \in {Absent, PyStr(<<>>), PyStr(<<"T">>)},
        name \in {Absent, PyStr(<<"n">>)},
        notes \in {Absent, PyStr(<<"N">>)},
        author \in {Absent, PyStr(<<>>), PyStr(<<"A">>)},
        author_email \in {Absent, PyStr(<<"a">>)},
        maintainer \in {Absent, PyStr(<<"M">>)},
        maintainer_email \in {Absent, PyStr(<<"m">>)},
        tags \in {Absent, PyList(<<>>), PyList(<<Tag("display_name", <<"k">>)>>),
                  PyList(<<Tag("display_name", <<>>), Tag("name", <<"j">>),
                           Tag("display_name", <<"l">>)>>)},
        groups \in {Absent, PyList(<<>>),
                    PyList(<<Tag("name", <<"g">>), Tag("title", <<"h">>)>>)},
        resources \in {Absent, PyList(<<>>), PyList(<<SampleResource>>)},
        extras \in {Absent, PyList(<<>>)} }

\* Records that vary the extras list only.
ExtrasPackages == { "extras" :> PyList(items) : items \in SeqsUpTo(ExtraItems, MaxExtras) }

MapperInputs == ListPackages \cup ExtrasPackages

Person == PyDict([name |-> PyStr(<<"A">>), email |-> PyNone])
ValidatorInputs ==
    { Opt("title", title) @@ Opt("description", description)
      @@ Opt("creators", creators) @@ Opt("contacts", contacts)
      @@ Opt("keywords", keywords) @@ Opt("temporalCoverage", temporal) :
        title \in {Absent, PyNone, PyStr(<<>>), PyStr(<<"T">>)},
        description \in {Absent, PyStr(<<>>), PyStr(<<"N">>)},
        creators \in {Absent, PyList(<<>>), PyList(<<PyDict(EmptyMap)>>), PyList(<<Person>>)},
        contacts \in {Absent, PyList(<<>>), PyList(<<PyDict(EmptyMap)>>), PyList(<<Person>>)},
        keywords \in {Absent, PyList(<<>>), PyList(<<PyStr(<<>>)>>), PyList(<<PyStr(<<"k">>)>>),
                      PyList(<<PyStr(<<>>), PyStr(<<"k">>)>>)},
        temporal \in {Absent, PyNone, PyDict(EmptyMap)}
            \cup { PyDict(Opt("startDate", s) @@ Opt("endDate", e)) :
                     s \in {Absent, PyStr(<<>>), PyStr(<<"1">>)},
                     e \in {Absent, PyNone, PyStr(<<"2">>)} } }

NameChars == {"d", ".", "c"}
FilenameNames ==
    {Absent, PyStr(Chars_dataset), PyStr(Chars_dataset_csv)}
    \cup { PyStr(s) : s \in SeqsUpTo(NameChars, MaxNameLen) }
FilenameUrls ==
    {Absent, PyNone, PyStr(<<>>), PyStr(Chars_url_data_csv),
     PyStr(<<"x", "/", "d", ".", "c">>), PyStr(<<"x", "/", ".", "c">>),
     PyStr(<<"x", "/", "d", ".">>), PyStr(<<"d", ".", "c", "/">>),
     PyStr(<<"d", ".", "c", "/", "x">>), PyStr(<<"x", ".", "d", ".", "c">>),
     PyStr(<<"x", "/", "d">>), PyStr(<<"/">>), PyStr(<<".", ".">>),
     PyStr(<<"x", "/", ".", ".", "c">>), PyStr(<<"d", ".", "c", "/", ".">>)}
FilenameInputs ==
    { Opt("name", name) @@ Opt("id", id) @@ Opt("url", url) :
        name \in FilenameNames, id \in {Absent, PyStr(<<"i">>)}, url \in FilenameUrls }

(***************************************************************************)
(* The static methods applied to drawn inputs.                             *)
(***************************************************************************)
ClientDefaults ==
    /\ ckan_key = <<>>
    /\ ess_token = <<>>
    /\ dry_run = TRUE
    /\ tapis_cfg = [base |-> FALSE, token |-> FALSE, system |-> FALSE, path |-> FALSE]
    /\ Tapis = FALSE
    /\ tapis_client = "None"
    /\ essRequested = FALSE
    /\ world = <<>>
    /\ idx = 0
    /\ saved = <<>>
    /\ log = <<>>

ClientUnchanged ==
    UNCHANGED <<ckan_key, ess_token, dry_run, tapis_cfg, Tapis, tapis_client,
                essRequested, world, idx, saved, log>>

PureInit ==
    /\ ClientDefaults
    /\ pc = "call"
    /\ ret = PyNone
    /\ \/ op = "map_ckan_to_essdive" /\ arg \in MapperInputs
       \/ op = "find_missing_metadata" /\ arg \in ValidatorInputs
       \/ op = "_resource_filename" /\ arg \in FilenameInputs

MapCkanToEssdive ==
    /\ pc = "call" /\ op = "map_ckan_to_essdive"
    /\ ret' = PyDict(map_ckan_to_essdive(arg))
    /\ pc' = "done"
    /\ UNCHANGED <<op, arg>>
    /\ ClientUnchanged

FindMissingMetadata ==
    /\ pc = "call" /\ op = "find_missing_metadata"
    /\ ret' = PyList(find_missing_metadata(arg))
    /\ pc' = "done"
    /\ UNCHANGED <<op, arg>>
    /\ ClientUnchanged

ResourceFilename ==
    /\ pc = "call" /\ op = "_resource_filename"
    /\ ret' = PyStr(resource_filename(arg))
    /\ pc' = "done"
    /\ UNCHANGED <<op, arg>>
    /\ ClientUnchanged

PureNext == MapCkanToEssdive \/ FindMissingMetadata \/ ResourceFilename

PureSpec == PureInit /\ [][PureNext]_vars

(***************************************************************************)
(* The client's operations.  An outcome is what a call hands its caller:   *)
(* a returned value or a raised exception, with the network requests the   *)
(* call issued, in order.                                                  *)
(***************************************************************************)
Return(value, calls) == [kind |-> "return", value |-> value, calls |-> calls]
Raise(type, msg, calls) == [kind |-> "raise", type |-> type, msg |-> msg, calls |-> calls]

USER_AGENT == "ckan-to-ess-dive-notebook"

\* _headers(api_key)
Headers(api_key) ==
    IF Len(api_key) > 0
    THEN [User_Agent |-> USER_AGENT, Authorization |-> api_key]
    ELSE [User_Agent |-> USER_AGENT]

\* resp.raise_for_status(): an HTTPError for a 4xx or 5xx status
RaisesForStatus(status) == 400 <= status /\ status < 600

\* What requests.get / requests.post meet: no answer at all, or an answer
\* with a status and a JSON body.
HttpStatuses == {200, 404, 500}
NoAnswer == [net |-> "error"]
Answer(status, body) == [net |-> "answer", status |-> status, body |-> body]

(***************************************************************************)
(* get_ckan_token_via_tapis, authenticate_ckan_with_tapis                  *)
(***************************************************************************)
\* The credential exchange, as tapipy answers it: a token, or an exception
\* of tapipy's own.
ExchangeTokens == {<<"j", "w", "t">>}
ExchangeAnswers ==
    {[ok |-> TRUE, token |-> t] : t \in ExchangeTokens}
    \cup {[ok |-> FALSE, type |-> e] : e \in {"BaseTapyException", "ConnectionError"}}

get_ckan_token_via_tapis(tapisImported, exchange) ==
    IF ~tapisImported
    THEN Raise("RuntimeError", "tapipy is not installed; cannot fetch Tapis tokens", <<>>)
    ELSE IF exchange.ok
    THEN Return(exchange.token, <<"tapis_get_tokens">>)
    ELSE Raise(exchange.type, "", <<"tapis_get_tokens">>)

\* self.ckan_key = token, reached only when the exchange returned
AuthStoredKey_ClearedOnFailure(key, token) ==
    IF token.kind = "return" THEN token.value ELSE <<>>

AuthStoredKey(key, token) ==
    IF token.kind = "return" THEN token.value ELSE key

AuthenticateCkanWithTapis ==
    /\ pc = "idle"
    /\ \E exchange \in ExchangeAnswers :
         LET token == get_ckan_token_via_tapis(Tapis, exchange)
         IN /\ ckan_key' = AuthStoredKey(ckan_key, token)
            /\ ret' = token
            /\ world' = exchange
    /\ op' = "authenticate_ckan_with_tapis"
    /\ arg' = PyNone
    /\ log' = <<>>
    /\ pc' = "returned"
    /\ UNCHANGED <<ess_token, dry_run, tapis_cfg, Tapis, tapis_client, essRequested,
                   idx, saved>>

(***************************************************************************)
(* ckan_request, list_ckan_packages, get_ckan_package                      *)
(***************************************************************************)
CkanEnvelopes ==
    { Opt("success", success) @@ Opt("result", result) :
        success \in {Absent, [t |-> "bool", b |-> TRUE], [t |-> "bool", b |-> FALSE]},
        result \in {Absent, PyDict(EmptyMap),
                    PyDict("results" :> PyList(<<PyDict("name" :> PyStr(<<"n">>))>>))} }
CkanAnswers == {NoAnswer} \cup {Answer(st, env) : st \in HttpStatuses, env \in CkanEnvelopes}

\* not payload.get("success")
SuccessFlagFalsy_ExplicitFalseOnly(payload) ==
    IF "success" \in DOMAIN payload THEN ~payload["success"].b ELSE FALSE

SuccessFlagFalsy(payload) == IF "success" \in DOMAIN payload THEN ~payload["success"].b ELSE TRUE

ckan_request(key, action, params, answer) ==
    LET call == [method |-> "GET", url |-> <<"ckan_url", "/api/3/action/", action>>,
                 headers |-> Headers(key), params |-> params]
    IN IF answer.net = "error" THEN Raise("ConnectionError", <<>>, <<call>>)
       ELSE IF RaisesForStatus(answer.status) THEN Raise("HTTPError", <<>>, <<call>>)
       ELSE IF SuccessFlagFalsy(answer.body)
       THEN Raise("RuntimeError", <<"CKAN call ", action, " failed: ", answer.body>>, <<call>>)
       ELSE IF "result" \notin DOMAIN answer.body THEN Raise("KeyError", <<"result">>, <<call>>)
       ELSE Return(answer.body["result"], <<call>>)

SearchTerms == {PyNone, PyStr(<<>>), PyStr(<<"q">>)}

list_ckan_packages(key, search, limit, answer) ==
    LET params == IF Truthy(search) THEN [rows |-> limit, q |-> search] ELSE [rows |-> limit]
        result == ckan_request(key, "package_search", params, answer)
    IN IF result.kind = "raise" THEN result
       ELSE Return(GetOr(result.value.d, "results", PyList(<<>>)), result.calls)

get_ckan_package(key, name_or_id, answer) ==
    ckan_request(key, "package_show", [id |-> name_or_id], answer)

ListCkanPackages ==
    /\ pc = "idle"
    /\ \E search \in SearchTerms, answer \in CkanAnswers :
         /\ arg' = search
         /\ world' = answer
         /\ ret' = list_ckan_packages(ckan_key, search, 40, answer)
    /\ op' = "list_ckan_packages"
    /\ log' = <<>>
    /\ pc' = "returned"
    /\ UNCHANGED <<ckan_key, ess_token, dry_run, tapis_cfg, Tapis, tapis_client,
                   essRequested, idx, saved>>

GetCkanPackage ==
    /\ pc = "idle"
    /\ \E answer \in CkanAnswers :
         /\ arg' = PyStr(<<"n">>)
         /\ world' = answer
         /\ ret' = get_ckan_package(ckan_key, PyStr(<<"n">>), answer)
    /\ op' = "get_ckan_package"
    /\ log' = <<>>
    /\ pc' = "returned"
    /\ UNCHANGED <<ckan_key, ess_token, dry_run, tapis_cfg, Tapis, tapis_client,
                   essRequested, idx, saved>>

(***************************************************************************)
(* submit_to_essdive                                                       *)
(***************************************************************************)
Whitespace == {" ", "\t", "\n"}

\* str.strip()
RECURSIVE LStrip(_)
LStrip(s) == IF s # <<>> /\ Head(s) \in Whitespace THEN LStrip(Tail(s)) ELSE s
RECURSIVE RStrip(_)
RStrip(s) ==
    IF s # <<>> /\ s[Len(s)] \in Whitespace THEN RStrip(SubSeq(s, 1, Len(s) - 1)) ELSE s
Strip(s) == RStrip(LStrip(s))

DrySentinel == PyDict([status |-> PyStr(<<"skipped">>), reason |-> PyStr(<<"dry_run_enabled">>)])

EssAnswers ==
    {NoAnswer} \cup {Answer(st, PyDict("id" :> PyStr(<<"e">>))) : st \in HttpStatuses}

\* if self.dry_run
SubmitSkips_Inverted(dry) == ~dry

SubmitSkips(dry) == dry

\* if not token
TokenMissing_Unchecked(token) == FALSE

TokenMissing(token) == Len(token) = 0

submit_to_essdive(dry, ess_tok, payload, answer) ==
    IF SubmitSkips(dry) THEN Return(DrySentinel, <<>>)
    ELSE LET token == Strip(ess_tok)
             call == [method |-> "POST", url |-> <<"ess_url", "/datasets">>,
                      headers |-> [Authorization |-> <<"Bearer ">> \o token,
                                   Content_Type |-> "application/json"],
                      json |-> payload]
         IN IF TokenMissing(token)
            THEN Raise("RuntimeError", "ESS-DIVE token is required to write", <<>>)
            ELSE IF answer.net = "error" THEN Raise("ConnectionError", <<>>, <<call>>)
            ELSE IF RaisesForStatus(answer.status) THEN Raise("HTTPError", <<>>, <<call>>)
            ELSE Return(answer.body, <<call>>)

SubmitPayloads == {EmptyMap, map_ckan_to_essdive("title" :> PyStr(<<"T">>))}

SubmitToEssdive ==
    /\ pc = "idle"
    /\ \E payload \in SubmitPayloads, answer \in EssAnswers :
         LET result == submit_to_essdive(dry_run, ess_token, payload, answer)
         IN /\ arg' = PyDict(payload)
            /\ world' = answer
            /\ ret' = result
            /\ essRequested' = (essRequested \/ result.calls # <<>>)
    /\ op' = "submit_to_essdive"
    /\ log' = <<>>
    /\ pc' = "returned"
    /\ UNCHANGED <<ckan_key, ess_token, dry_run, tapis_cfg, Tapis, tapis_client, idx, saved>>

(***************************************************************************)
(* download_resource, tapis_client, stage_resources                        *)
(***************************************************************************)
\* def download_resource(resource, target_dir, api_key=""): the signature as
\* written, with neither self nor @staticmethod.
download_resource_params == <<"resource", "target_dir", "api_key">>

\* Python's binding of a call's arguments to a signature: positional
\* arguments fill the parameters from the left, and a keyword naming a
\* parameter that is already filled is a TypeError.
BindArguments(params, positional, keywords) ==
    IF Len(positional) > Len(params)
    THEN [ok |-> FALSE, type |-> "TypeError", msg |-> "too many positional arguments"]
    ELSE IF \E k \in DOMAIN keywords : \E i \in 1..Len(positional) : params[i] = k
    THEN [ok |-> FALSE, type |-> "TypeError", msg |-> "got multiple values for argument"]
    ELSE IF \E k \in DOMAIN keywords : \A i \in 1..Len(params) : params[i] # k
    THEN [ok |-> FALSE, type |-> "TypeError", msg |-> "got an unexpected keyword argument"]
    ELSE [ok |-> TRUE,
          args |-> keywords @@ [p \in {params[i] : i \in 1..Len(positional)} |->
                                  positional[CHOOSE i \in 1..Len(positional) : params[i] = p]]]

\* self.download_resource(res, self.local_stage, api_key=self.ckan_key):
\* looked up on the instance, the function is a bound method, and the
\* instance is its first positional argument.
SelfObject == [t |-> "CkanEssDiveClient"]
LocalStage == [t |-> "path", dir |-> "local_stage"]
StageCall(res, key) ==
    BindArguments(download_resource_params, <<SelfObject, res, LocalStage>>, "api_key" :> key)

download_resource(resource, target_dir, api_key, answer) ==
    LET url == Get(resource.d, "url")
        path == [t |-> "path", dir |-> target_dir.dir, name |-> resource_filename(resource.d)]
        call == [method |-> "GET", url |-> url, headers |-> Headers(api_key)]
    IN IF ~Truthy(url) THEN Raise("ValueError", "Resource has no URL to download", <<>>)
       ELSE IF answer.net = "error" THEN Raise("ConnectionError", <<>>, <<call>>)
       ELSE IF RaisesForStatus(answer.status) THEN Raise("HTTPError", <<>>, <<call>>)
       ELSE Return(path, <<call>>)

\* The tapis_client property: the client is built on first use.
TapisClientProperty(client, tapisImported, cfg) ==
    IF client = "None" /\ tapisImported /\ cfg.token /\ cfg.base THEN "client" ELSE client

\* except Exception: every exception class named in this model derives from it.
ExceptClauseCatches_ValueErrorOnly(type) == type = "ValueError"

ExceptClauseCatches(type) ==
    type \in {"TypeError", "ValueError", "ConnectionError", "HTTPError", "RuntimeError",
              "KeyError", "BaseTapyException"}

\* One pass of the body of the try statement: what it appends to saved, the
\* _tapis_client it leaves, and the exception it ends with ("" for none).
StageTry(res, w, key, client, tapisImported, cfg) ==
    LET bound == StageCall(res, key)
    IN IF ~bound.ok THEN [appended |-> <<>>, client |-> client, exc |-> bound.type]
       ELSE LET got == download_resource(bound.args["resource"], bound.args["target_dir"],
                                         bound.args["api_key"], w.answer)
                client2 == TapisClientProperty(client, tapisImported, cfg)
            IN IF got.kind = "raise" THEN [appended |-> <<>>, client |-> client, exc |-> got.type]
               ELSE IF client2 # "None" /\ cfg.system /\ cfg.path /\ ~w.upload
               THEN [appended |-> <<got.value>>, client |-> client2, exc |-> "BaseTapyException"]
               ELSE [appended |-> <<got.value>>, client |-> client2, exc |-> ""]

\* Packages to stage: resource i is named by its position, and either has a
\* URL or has none; the remote end answers each download and each upload.
StageLetters == <<"a", "b", "c", "d", "e", "f">>
StageResource(i, hasUrl) ==
    PyDict(("name" :> PyStr(<<StageLetters[i]>>))
           @@ (IF hasUrl THEN "url" :> PyStr(<<"x", "/", StageLetters[i], ".", "c">>)
               ELSE EmptyMap))
StageBody == PyStr(<<"b", "y", "t", "e", "s">>)
StageScenarios ==
    { [url |-> FALSE, answer |-> Answer(200, StageBody), upload |-> TRUE],
      [url |-> TRUE, answer |-> Answer(200, StageBody), upload |-> TRUE],
      [url |-> TRUE, answer |-> Answer(200, StageBody), upload |-> FALSE],
      [url |-> TRUE, answer |-> Answer(404, StageBody), upload |-> TRUE],
      [url |-> TRUE, answer |-> NoAnswer, upload |-> TRUE] }
StageInputs == SeqsUpTo(StageScenarios, MaxResources)

\* package.get("resources", [])
Resources(package) == GetOr(package.d, "resources", PyList(<<>>)).l

\* Entry of stage_resources: saved = [] and the for loop's iterator.
StageBegin ==
    /\ pc = "idle"
    /\ \E sc \in StageInputs :
         /\ arg' = PyDict("resources" :>
                            PyList([i \in 1..Len(sc) |-> StageResource(i, sc[i].url)]))
         /\ world' = [i \in 1..Len(sc) |-> [answer |-> sc[i].answer, upload |-> sc[i].upload]]
    /\ op' = "stage_resources"
    /\ pc' = "staging"
    /\ idx' = 1
    /\ saved' = <<>>
    /\ log' = <<>>
    /\ ret' = PyNone
    /\ UNCHANGED <<ckan_key, ess_token, dry_run, tapis_cfg, Tapis, tapis_client, essRequested>>

\* One iteration of the for loop: the try statement and its except clause.
StageStep ==
    /\ pc = "staging"
    /\ idx <= Len(Resources(arg))
    /\ LET res == Resources(arg)[idx]
           try == StageTry(res, world[idx], ckan_key, tapis_client, Tapis, tapis_cfg)
       IN /\ saved' = saved \o try.appended
          /\ tapis_client' = try.client
          /\ IF try.exc = ""
             THEN /\ log' = log
                  /\ idx' = idx + 1
                  /\ UNCHANGED <<pc, ret>>
             ELSE IF ExceptClauseCatches(try.exc)
             THEN /\ log' = Append(log, [name |-> Get(res.d, "name"), exc |-> try.exc])
                  /\ idx' = idx + 1
                  /\ UNCHANGED <<pc, ret>>
             ELSE /\ log' = log
                  /\ idx' = 0
                  /\ pc' = "returned"
                  /\ ret' = Raise(try.exc, <<>>, <<>>)
    /\ UNCHANGED <<ckan_key, ess_token, dry_run, tapis_cfg, Tapis, essRequested, op, arg, world>>

\* return saved, once the loop is exhausted
StageReturn ==
    /\ pc = "staging"
    /\ idx > Len(Resources(arg))
    /\ ret' = Return(PyList(saved), <<>>)
    /\ pc' = "returned"
    /\ idx' = 0
    /\ UNCHANGED <<ckan_key, ess_token, dry_run, tapis_cfg, Tapis, tapis_client, essRequested,
                   op, arg, world, saved, log>>

(***************************************************************************)
(* The client after __init__, and its operations in any order.             *)
(***************************************************************************)
EssTokens == {<<>>, <<" ">>, <<"t">>, <<" ", "t", "\n">>}
CkanKeys == {<<>>, <<"k">>}
TapisConfigs ==
    { [base |-> FALSE, token |-> FALSE, system |-> FALSE, path |-> FALSE],
      [base |-> TRUE, token |-> TRUE, system |-> TRUE, path |-> TRUE],
      [base |-> TRUE, token |-> TRUE, system |-> TRUE, path |-> FALSE] }

Init ==
    /\ ckan_key \in CkanKeys
    /\ ess_token \in EssTokens
    /\ dry_run \in BOOLEAN
    /\ tapis_cfg \in TapisConfigs
    /\ Tapis \in BOOLEAN
    /\ tapis_client = "None"
    /\ essRequested = FALSE
    /\ pc = "idle"
    /\ op = "__init__"
    /\ arg = PyNone
    /\ ret = PyNone
    /\ world = <<>>
    /\ idx = 0
    /\ saved = <<>>
    /\ log = <<>>

\* The caller takes the outcome of the call it made; the call's frame is gone.
CallerResumes ==
    /\ pc = "returned"
    /\ pc' = "idle"
    /\ op' = "__init__"
    /\ arg' = PyNone
    /\ ret' = PyNone
    /\ world' = <<>>
    /\ saved' = <<>>
    /\ log' = <<>>
    /\ UNCHANGED <<ckan_key, ess_token, dry_run, tapis_cfg, Tapis, tapis_client, essRequested, idx>>

Next ==
    \/ AuthenticateCkanWithTapis
    \/ ListCkanPackages
    \/ GetCkanPackage
    \/ SubmitToEssdive
    \/ StageBegin
    \/ StageStep
    \/ StageReturn
    \/ CallerResumes

Spec == Init /\ [][Next]_vars

\* stage_resources alone, on a client whose destination settings (which it
\* never reads) are the defaults.  The loop is sequential code that nothing
\* suspends: a step that can be taken is taken.
StageInit == Init /\ dry_run = TRUE /\ ess_token = <<>>
StageNext == StageBegin \/ StageStep \/ StageReturn \/ CallerResumes
StageSpec ==
    StageInit /\ [][StageNext]_vars /\ WF_vars(StageStep) /\ WF_vars(StageReturn)

(***************************************************************************)
(* The claims.                                                             *)
(***************************************************************************)
Returned(o) == pc = "returned" /\ op = o
Computed(o) == pc = "done" /\ op = o

\* Whether the download of a resource succeeds at the remote end.
DownloadSucceeds(res, w) ==
    /\ Truthy(Get(res.d, "url"))
    /\ w.answer.net = "answer"
    /\ w.answer.status = 200

StagedPath(chars) == [t |-> "path", dir |-> "local_stage", name |-> chars]

\* The staged locations of the resources whose download succeeds, in source order.
ExpectedStaged(resources, w) ==
    LET Ok(i) == DownloadSucceeds(resources[i], w[i])
        ok == SelectSeq([i \in 1..Len(resources) |-> i], Ok)
    IN [k \in 1..Len(ok) |-> StagedPath(<<StageLetters[ok[k]], ".", "c">>)]

\* Three resources, the second without a URL, the first and third downloadable.
SecondHasNoUrl ==
    /\ Len(Resources(arg)) = 3
    /\ DownloadSucceeds(Resources(arg)[1], world[1])
    /\ ~Truthy(Get(Resources(arg)[2].d, "url"))
    /\ DownloadSucceeds(Resources(arg)[3], world[3])

\* C1: stage_resources returns, without raising, exactly one location per
\* resource whose download succeeded, in source order; given three resources
\* of which the second has no URL, it returns the locations of the first and
\* the third and logs a failure for the second.
C1_StageReturnsDownloaded ==
    Returned("stage_resources") =>
        /\ ret.kind = "return"
        /\ ret.value.l = ExpectedStaged(Resources(arg), world)
        /\ SecondHasNoUrl =>
             /\ ret.value.l = <<StagedPath(<<"a", ".", "c">>), StagedPath(<<"c", ".", "c">>)>>
             /\ \E k \in 1..Len(log) : log[k].name = PyStr(<<"b">>)

\* C2: inside stage_resources every iteration moves on to the next resource,
\* whatever happened to the current one (no URL, a non-success status, no
\* answer, a failed upload); the call never hands an exception to its caller,
\* returns only after the last resource, and always returns.
C2_StageNeverAborts ==
    /\ [][(pc = "staging" /\ idx <= Len(Resources(arg)))
            => (pc' = "staging" /\ idx' = idx + 1 /\ arg' = arg)]_vars
    /\ [][(pc = "staging" /\ pc' = "returned")
            => (idx = Len(Resources(arg)) + 1 /\ ret'.kind = "return")]_vars
    /\ [](Returned("stage_resources") =>
            (ret.kind = "return" /\ idx = 0))
    /\ ((pc = "staging") ~> Returned("stage_resources"))

\* A call that met a resource without URL, a non-success status and no answer
\* at all, and returned.
C2_Witness ==
    /\ Returned("stage_resources")
    /\ Len(Resources(arg)) = 3
    /\ ~Truthy(Get(Resources(arg)[1].d, "url"))
    /\ world[2].answer.net = "answer" /\ world[2].answer.status = 404
    /\ world[3].answer.net = "error"
    /\ Len(log) = 3
    /\ ret.kind = "return"

\* C3: on a client with dry_run set, submit_to_essdive returns the sentinel
\* {status: skipped, reason: dry_run_enabled} whatever the payload and the
\* token, and no request to the destination has ever been issued.
C3_DryRunNeverPosts ==
    dry_run =>
        /\ ~essRequested
        /\ Returned("submit_to_essdive") =>
             /\ ret.kind = "return"
             /\ ret.value = DrySentinel
             /\ ret.calls = <<>>

C3_Witness ==
    /\ Returned("submit_to_essdive")
    /\ dry_run
    /\ ess_token = <<>>
    /\ arg # PyDict(EmptyMap)
    /\ ret.kind = "return" /\ ret.value = DrySentinel

\* C4: with dry_run off and an empty token, submit_to_essdive raises before
\* any request is made and never returns the sentinel; a POST to the
\* destination is issued only with dry_run off and a non-empty token.
C4_TokenRequired ==
    /\ (Returned("submit_to_essdive") /\ ~dry_run /\ ess_token = <<>>) =>
          /\ ret.kind = "raise"
          /\ ret.type = "RuntimeError"
          /\ ret.calls = <<>>
    /\ (Returned("submit_to_essdive") /\ ret.calls # <<>>) =>
          /\ ~dry_run /\ ess_token # <<>>
          /\ \A i \in 1..Len(ret.calls) : ret.calls[i].method = "POST"
    /\ essRequested => (~dry_run /\ ess_token # <<>>)

C4_Witness ==
    /\ Returned("submit_to_essdive")
    /\ ~dry_run
    /\ ess_token = <<>>
    /\ ret.kind = "raise"
    /\ ~essRequested

LabelOrder ==
    <<"Title", "Description / abstract", "At least one creator",
      "Primary contact / maintainer", "Keywords / tags",
      "Temporal start date", "Temporal end date">>

HasTruthyEntry(v) == v.t = "list" /\ \E i \in 1..Len(v.l) : Truthy(v.l[i])

TemporalDate(payload, key) ==
    LET tc == Get(payload, "temporalCoverage")
    IN IF tc.t = "dict" THEN Get(tc.d, key) ELSE PyNone

\* The seven checks, by the label each appends when it fails.
CheckFails(payload, label) ==
    CASE label = "Title" -> ~Truthy(Get(payload, "title"))
      [] label = "Description / abstract" -> ~Truthy(Get(payload, "description"))
      [] label = "At least one creator" -> ~HasTruthyEntry(Get(payload, "creators"))
      [] label = "Primary contact / maintainer" -> ~HasTruthyEntry(Get(payload, "contacts"))
      [] label = "Keywords / tags" -> ~HasTruthyEntry(Get(payload, "keywords"))
      [] label = "Temporal start date" -> ~Truthy(TemporalDate(payload, "startDate"))
      [] label = "Temporal end date" -> ~Truthy(TemporalDate(payload, "endDate"))

\* A payload with every required field filled in, its sequences holding
\* entries as the Field Mapper builds them (name/email pairs, non-empty
\* keyword strings).
FullyPopulated(payload) ==
    /\ \A k \in {"title", "description", "creators", "contacts", "keywords"} :
         Truthy(Get(payload, k))
    /\ \A k \in {"creators", "contacts"} :
         \A i \in 1..Len(payload[k].l) : DOMAIN payload[k].l[i].d = {"name", "email"}
    /\ \A i \in 1..Len(payload["keywords"].l) : Truthy(payload["keywords"].l[i])
    /\ Truthy(TemporalDate(payload, "startDate"))
    /\ Truthy(TemporalDate(payload, "endDate"))

\* C5: find_missing_metadata returns exactly the labels of the failed checks,
\* each at most once, in the fixed order; all seven for the empty payload and
\* none for a fully-populated one.
C5_ReportIsFailedChecksInOrder ==
    Computed("find_missing_metadata") =>
        LET Fails(label) == CheckFails(arg, label)
        IN /\ ret.l = SelectSeq(LabelOrder, Fails)
           /\ \A i, j \in 1..Len(ret.l) : ret.l[i] = ret.l[j] => i = j
           /\ arg = EmptyMap => ret.l = LabelOrder
           /\ FullyPopulated(arg) => ret.l = <<>>

C5_Witness ==
    /\ Computed("find_missing_metadata")
    /\ FullyPopulated(arg)
    /\ ret.l = <<>>

SequenceFields == {"keywords", "creators", "contacts", "communities", "resources"}

\* extras, tags, groups and resources each absent or an empty list
EmptyLists(package) ==
    \A k \in {"extras", "tags", "groups", "resources"} :
        k \notin DOMAIN package \/ package[k] = PyList(<<>>)

Given(package, k) == k \in DOMAIN package /\ Truthy(package[k])

\* C6 as stated: a record whose extras, tags, groups and resources are empty
\* maps to a payload whose keywords, creators, contacts, communities and
\* resources are all present and empty; the five are sequences for every record.
C6_Original ==
    Computed("map_ckan_to_essdive") =>
        /\ \A k \in SequenceFields : k \in DOMAIN ret.d /\ ret.d[k].t = "list"
        /\ EmptyLists(arg) => \A k \in SequenceFields : ret.d[k] = PyList(<<>>)

\* C6, amended: for every record the five fields are present as sequences;
\* when extras, tags, groups and resources are empty or absent, keywords,
\* communities and resources are empty, and creators (contacts) is empty
\* exactly when the record gives neither author nor author_email (neither
\* maintainer nor maintainer_email).
C6_SequencesAlwaysPresent ==
    Computed("map_ckan_to_essdive") =>
        /\ ret.t = "dict"
        /\ \A k \in SequenceFields : k \in DOMAIN ret.d /\ ret.d[k].t = "list"
        /\ EmptyLists(arg) =>
             /\ \A k \in {"keywords", "communities", "resources"} : ret.d[k] = PyList(<<>>)
             /\ ret.d["creators"] = PyList(<<>>)
                  <=> ~(Given(arg, "author") \/ Given(arg, "author_email"))
             /\ ret.d["contacts"] = PyList(<<>>)
                  <=> ~(Given(arg, "maintainer") \/ Given(arg, "maintainer_email"))

C6_Witness ==
    /\ Computed("map_ckan_to_essdive")
    /\ arg = [author |-> PyStr(<<"A">>), tags |-> PyList(<<>>), extras |-> PyList(<<>>)]
    /\ ret.d["keywords"] = PyList(<<>>)
    /\ ret.d["contacts"] = PyList(<<>>)
    /\ Len(ret.d["creators"].l) = 1

\* The extras list of the record mapped, read directly: whether a key occurs,
\* and the value of its last occurrence.
ExtrasOf(package) == GetOr(package, "extras", PyList(<<>>)).l
Present(items, k) == \E i \in 1..Len(items) : items[i].key = k
LastValue(items, k) ==
    items[CHOOSE i \in 1..Len(items) :
            items[i].key = k /\ \A j \in 1..Len(items) : items[j].key = k => j <= i].value

CoverageFields ==
    { <<"startDate", "temporal_start", "time_start">>,
      <<"endDate", "temporal_end", "time_end">>,
      <<"spatialCoverage", "spatial", "bbox">> }

MappedCoverage(payload, field) ==
    IF field = "spatialCoverage" THEN payload.d["spatialCoverage"]
    ELSE payload.d["temporalCoverage"].d[field]

\* C7 as stated: each coverage field is the value of its first key whenever
\* that key is present in the extras, whatever the value; else the value of
\* its second key; else absent.
C7_Original ==
    Computed("map_ckan_to_essdive") =>
        \A f \in CoverageFields :
            MappedCoverage(ret, f[1]) =
                IF Present(ExtrasOf(arg), f[2]) THEN LastValue(ExtrasOf(arg), f[2])
                ELSE IF Present(ExtrasOf(arg), f[3]) THEN LastValue(ExtrasOf(arg), f[3])
                ELSE PyNone

\* C7, amended: each coverage field is the value of its first key when that
\* key is present with a truthy (non-empty, non-null) value; otherwise the
\* value of its second key when that key is present; otherwise absent.
C7_TruthyFallback ==
    Computed("map_ckan_to_essdive") =>
        \A f \in CoverageFields :
            MappedCoverage(ret, f[1]) =
                IF Present(ExtrasOf(arg), f[2]) /\ Truthy(LastValue(ExtrasOf(arg), f[2]))
                THEN LastValue(ExtrasOf(arg), f[2])
                ELSE IF Present(ExtrasOf(arg), f[3]) THEN LastValue(ExtrasOf(arg), f[3])
                ELSE PyNone

C7_Witness ==
    /\ Computed("map_ckan_to_essdive")
    /\ ExtrasOf(arg) = <<[key |-> "temporal_start", value |-> PyStr(<<>>)],
                         [key |-> "time_start", value |-> PyStr(<<"1">>)]>>
    /\ MappedCoverage(ret, "startDate") = PyStr(<<"1">>)

\* The remote action each convenience operation names.
CkanAction(o) == IF o = "list_ckan_packages" THEN "package_search" ELSE "package_show"

HttpSuccess(answer) == answer.net = "answer" /\ answer.status < 400
EnvelopeSucceeded(answer) ==
    "success" \in DOMAIN answer.body /\ answer.body["success"].b

\* C8: a catalog call returns the envelope's result only on a success status
\* with a true success flag; a non-success status raises the transport error
\* whatever the envelope says; a success status with a false or missing flag
\* raises the protocol error naming the action; list_ckan_packages and
\* get_ckan_package hand either failure to their caller.
C8_CatalogCallOutcomes ==
    (Returned("list_ckan_packages") \/ Returned("get_ckan_package")) =>
        /\ ret.kind = "return" =>
             /\ HttpSuccess(world)
             /\ EnvelopeSucceeded(world)
             /\ "result" \in DOMAIN world.body
             /\ op = "get_ckan_package" => ret.value = world.body["result"]
        /\ (world.net = "answer" /\ ~HttpSuccess(world)) =>
             (ret.kind = "raise" /\ ret.type = "HTTPError")
        /\ (HttpSuccess(world) /\ ~EnvelopeSucceeded(world)) =>
             /\ ret.kind = "raise"
             /\ ret.type = "RuntimeError"
             /\ ret.msg[2] = CkanAction(op)
        /\ Len(ret.calls) = 1 /\ ret.calls[1].method = "GET"

\* A success status carrying an envelope without a success flag.
C8_Witness ==
    /\ Returned("list_ckan_packages")
    /\ HttpSuccess(world)
    /\ "success" \notin DOMAIN world.body
    /\ "result" \in DOMAIN world.body
    /\ ret.kind = "raise"
    /\ ret.msg[2] = "package_search"

\* The first of name, id and "resource" that is not empty.
BaseName(resource) ==
    IF Truthy(Get(resource, "name")) THEN resource["name"].s
    ELSE IF Truthy(Get(resource, "id")) THEN resource["id"].s
    ELSE Chars_resource

UrlExtension(resource) ==
    IF Truthy(Get(resource, "url")) THEN PathSuffix(resource["url"].s) ELSE <<>>

\* C9: the staging filename is the resource's name, else its id, else
\* "resource", with the URL's extension appended exactly when the name does
\* not already end with it: https://x/data.csv gives dataset.csv for the name
\* dataset and for the name dataset.csv, and deriving the filename again from
\* the derived name changes nothing.
C9_SuffixAppendedOnce ==
    Computed("_resource_filename") =>
        LET base == BaseName(arg)
            ext == UrlExtension(arg)
        IN /\ ret.s = (IF EndsWith(base, ext) THEN base ELSE base \o ext)
           /\ EndsWith(ret.s, ext)
           /\ resource_filename(("name" :> ret) @@ arg) = ret.s
           /\ (Get(arg, "url") = PyStr(Chars_url_data_csv)
                 /\ Get(arg, "name") \in {PyStr(Chars_dataset), PyStr(Chars_dataset_csv)})
                => ret.s = Chars_dataset_csv

C9_Witness ==
    /\ Computed("_resource_filename")
    /\ Get(arg, "url") = PyStr(Chars_url_data_csv)
    /\ Get(arg, "name") = PyStr(Chars_dataset_csv)
    /\ ret.s = Chars_dataset_csv

AuthCall == pc = "idle" /\ op' = "authenticate_ckan_with_tapis"
AuthLeavesOtherFields == UNCHANGED <<ess_token, dry_run, tapis_cfg, tapis_client>>

\* C10 as stated: authenticate_ckan_with_tapis stores exactly the returned
\* token on a successful exchange; when the integration is unavailable or the
\* exchange fails it raises a configuration error and changes no field; no
\* other operation changes ckan_key or dry_run.
C10_Original ==
    [][/\ AuthCall =>
            IF ret'.kind = "return"
            THEN world'.ok /\ ckan_key' = ret'.value /\ AuthLeavesOtherFields
            ELSE /\ ret'.type = "RuntimeError"
                 /\ ckan_key' = ckan_key
                 /\ AuthLeavesOtherFields
       /\ ~AuthCall => (ckan_key' = ckan_key /\ dry_run' = dry_run)]_vars

\* C10, amended: authenticate_ckan_with_tapis stores exactly the returned
\* token on a successful exchange; when the integration is unavailable it
\* raises the configuration error, and when the exchange fails the bridge
\* client's own exception reaches the caller; in both cases no field changes;
\* no other operation changes ckan_key or dry_run.
C10_KeyChangesOnlyOnExchange ==
    [][/\ AuthCall =>
            IF ret'.kind = "return"
            THEN world'.ok /\ ckan_key' = ret'.value /\ AuthLeavesOtherFields
            ELSE /\ IF Tapis THEN ~world'.ok /\ ret'.type = world'.type
                             ELSE ret'.type = "RuntimeError"
                 /\ ckan_key' = ckan_key
                 /\ AuthLeavesOtherFields
       /\ ~AuthCall => (ckan_key' = ckan_key /\ dry_run' = dry_run)]_vars

\* A failed exchange that left the key the client was built with.
C10_Witness ==
    /\ Returned("authenticate_ckan_with_tapis")
    /\ ret.kind = "raise"
    /\ ret.type = "ConnectionError"
    /\ ckan_key = <<"k">>

====
